---- MODULE Spec2Model ----
(***************************************************************************)
(* A model of the JavSP smart monitor                                      *)
(* (network-deployment/scripts/monitoring/smart_monitor.py).               *)
(*                                                                         *)
(* Two threads of control run over the shared fields of JavSPMonitor:      *)
(*   - the main thread, JavSPMonitor.run: load_state, start the worker,    *)
(*     then loop { scan_for_new_files, add_to_queue, save_state, sleep };  *)
(*   - the worker thread, JavSPMonitor.process_queue / process_file.       *)
(* The environment is the file system below the input directory, the       *)
(* external processor /app/.venv/bin/javsp, and the signals SIGTERM and    *)
(* SIGINT.  A step of the model is one stretch of code between two reads   *)
(* or writes of shared state; a `with self.lock:` block is one step.       *)
(*                                                                         *)
(* A ProcessingJob object is known by its place in processing_queue: the   *)
(* main thread only appends, and the worker holds no job when it prunes.   *)
(* The fields of a job that no decision reads (size, detected_time,        *)
(* last_modified, hash_md5) are left out.                                  *)
(*                                                                         *)
(* Assumptions on the environment: the output of the external processor    *)
(* decodes as text (readline does not raise); os.stat fails exactly when   *)
(* the file is not there.                                                  *)
(***************************************************************************)
EXTENDS Integers, Sequences, FiniteSets, TLC

(***************************************************************************)
(* Bounds of the model.                                                    *)
(***************************************************************************)
\* the value of files_processed + files_failed at which the worker picks no more
\* jobs (it goes on sleeping and testing is_running)
MaxJobs == 2
\* largest file size, in blocks of min_file_size bytes
MaxSize == 2

(***************************************************************************)
(* Configuration (load_config's defaults).  Sizes are counted in bytes; a   *)
(* writer appends in blocks of min_file_size bytes.                        *)
(***************************************************************************)
min_file_size_mb == 200
\* self.config['min_file_size_mb'] * 1024 * 1024
min_file_size == min_file_size_mb * 1024 * 1024
stability_check_count == 3

\* the paths below the input directory that the model follows
Paths == {"a.mp4", "b.MKV"}

\* the paths that arrive by a copy in place (the file grows while it is written);
\* the others arrive complete, by a rename into the input directory
Copied == {"a.mp4"}

\* Path(file_path).suffix
Suffix(p) == CASE p = "a.mp4" -> ".mp4"
               [] p = "b.MKV" -> ".MKV"
               [] p = "c.Mp4" -> ".Mp4"
               [] p = "d.nfo" -> ".nfo"
               [] OTHER -> ""

\* str.lower() on the suffixes above
Lower(s) == CASE s = ".MKV" -> ".mkv"
              [] s = ".Mkv" -> ".mkv"
              [] s = ".MP4" -> ".mp4"
              [] s = ".Mp4" -> ".mp4"
              [] s = ".NFO" -> ".nfo"
              [] OTHER -> s

\* config['video_extensions'] (the entries the paths of the model can hit)
video_extensions == {".mp4", ".mkv", ".avi"}

\* the exit codes of the external processor the model draws from
ExitCodes == {0, 1, 2}

\* time.time() - start_time, in whole units
Durations == {1}

\* None, as the value of stats['last_activity']
Null == "None"
\* datetime.now().isoformat()
Stamp == "isoformat"
\* os.stat raised OSError / FileNotFoundError
OSError == [ok |-> FALSE, size |-> 0, mtime |-> 0]
\* the state file: missing, unreadable as JSON (truncated), or one JSON document
NoFile == [kind |-> "missing", doc |-> <<>>]
Corrupt == [kind |-> "corrupt", doc |-> <<>>]

\* json.dump of an int: its decimal digits
RECURSIVE Decimal(_)
Decimal(n) == IF n < 10 THEN <<n>> ELSE Append(Decimal(n \div 10), n % 10)

\* json.load of a number, reading its last digit only
Number_last_digit(d) == d[Len(d)]

\* json.load of a number: the int its digits stand for
RECURSIVE Number(_)
Number(d) ==
    IF Len(d) = 1 THEN d[1] ELSE 10 * Number(SubSeq(d, 1, Len(d) - 1)) + d[Len(d)]

\* json.dump of None or of a str, and json.load of what it wrote
Text(v) == IF v = Null THEN <<"null">> ELSE <<"\"", v, "\"">>
Value(t) == IF Len(t) = 1 THEN Null ELSE t[2]

\* json.dump of a list of str, and json.load of what it wrote
Array(l) == <<"[", [i \in 1..Len(l) |-> Text(l[i])], "]">>
Items(a) == [i \in 1..Len(a[2]) |-> Value(a[2][i])]

\* json.dump(state, f): the document written for the dictionary `state`
Json(state) ==
    [kind |-> "json",
     doc |-> <<[stats |->
                  [files_processed |-> Decimal(state.stats.files_processed),
                   files_failed |-> Decimal(state.stats.files_failed),
                   total_processing_time |-> Decimal(state.stats.total_processing_time),
                   last_activity |-> Text(state.stats.last_activity)],
                completed_files |-> Array(state.completed_files),
                queue_length |-> Decimal(state.queue_length),
                current_job |-> state.current_job]>>]

\* state.get('stats', {}) of the document json.load has read
get_stats(doc) ==
    [files_processed |-> Number(doc.stats.files_processed),
     files_failed |-> Number(doc.stats.files_failed),
     total_processing_time |-> Number(doc.stats.total_processing_time),
     last_activity |-> Value(doc.stats.last_activity)]

\* a document whose 'completed_files' is null: a JSON object that save_state
\* does not write, and that set.update cannot iterate over
NullList(file) == [file EXCEPT !.doc[1].completed_files = <<"null">>]
is_null(a) == Len(a) = 1
\* no child process
NoProc == [running |-> 0, returncode |-> -1]

VARIABLES
    fs,                 \* the file system: path -> [exists, size, mtime]
    proc,               \* the child processes started by Popen
    state_file,         \* the contents of config['state_file'] on disk
    processing_queue,   \* self.processing_queue
    completed_files,    \* self.completed_files
    is_running,         \* self.is_running
    current_job,        \* self.current_job: a place in the queue, 0 for None
    stats,              \* self.stats
    main,               \* the main thread: its position and locals
    worker,             \* the worker thread: its position and locals
    lock,               \* self.lock: the thread that holds it, or "free"
    history             \* what has happened so far (read by no action's guard)

vars == <<fs, proc, state_file, processing_queue, completed_files, is_running,
          current_job, stats, main, worker, lock, history>>

shared == <<processing_queue, completed_files, is_running, current_job, stats, lock>>

Range(s) == {s[i] : i \in 1..Len(s)}

(***************************************************************************)
(* ProcessingJob                                                           *)
(***************************************************************************)
ProcessingJob(file_path) == [file_path |-> file_path, status |-> "pending"]

\* job.status = s for the job at place i
SetStatus(q, i, s) == [q EXCEPT ![i].status = s]

\* [job for job in q if job.status in statuses]
RECURSIVE Filter(_, _)
Filter(q, statuses) ==
    IF q = <<>> THEN <<>>
    ELSE IF Head(q).status \in statuses
         THEN <<Head(q)>> \o Filter(Tail(q), statuses)
         ELSE Filter(Tail(q), statuses)

\* the places of the jobs of q whose status is in statuses
Places(q, statuses) == {i \in 1..Len(q) : q[i].status \in statuses}

\* the smallest element of a non-empty set of numbers
Min(S) == CHOOSE x \in S : \A y \in S : x <= y

(***************************************************************************)
(* The file system                                                         *)
(***************************************************************************)
Absent == [exists |-> FALSE, size |-> 0, mtime |-> 0]

\* os.stat(file_path): the sample, or OSError when the file is not there
Stat(p) == IF fs[p].exists
           THEN [ok |-> TRUE, size |-> fs[p].size, mtime |-> fs[p].mtime]
           ELSE OSError

\* history, once the file at p has been created, changed or removed: the file of
\* the job the worker holds has not been quiet, and the sleep in progress is not
Changed(p) ==
    IF /\ worker.pc \in {"stat1", "stat2", "popen"}
       /\ processing_queue[worker.job].file_path = p
    THEN [history EXCEPT !.quiet = 0, !.dirty = (worker.pc = "stat2")]
    ELSE history

\* a file arrives: a copy begins with an empty file, a rename brings the whole file
FileCreate(p) ==
    /\ main.pc # "exited"
    /\ ~fs[p].exists
    /\ fs' = [fs EXCEPT ![p] = [exists |-> TRUE,
                                size |-> IF p \in Copied THEN 0 ELSE min_file_size,
                                mtime |-> 0]]
    /\ history' = Changed(p)
    /\ UNCHANGED <<proc, state_file, shared, main, worker>>

\* the writer appends to the file: size and mtime change
FileGrow(p) ==
    /\ main.pc # "exited"
    /\ p \in Copied
    /\ fs[p].exists
    /\ fs[p].size < MaxSize * min_file_size
    /\ fs' = [fs EXCEPT ![p].size = @ + min_file_size, ![p].mtime = @ + 1]
    /\ history' = Changed(p)
    /\ UNCHANGED <<proc, state_file, shared, main, worker>>

\* the file is moved away or deleted (the external processor does this)
FileDelete(p) ==
    /\ main.pc # "exited"
    /\ fs[p].exists
    /\ fs' = [fs EXCEPT ![p] = Absent]
    /\ history' = Changed(p)
    /\ UNCHANGED <<proc, state_file, shared, main, worker>>

(***************************************************************************)
(* is_video_file, is_file_stable                                           *)
(***************************************************************************)
\* ext = Path(file_path).suffix.lower(); return ext in the configured list
is_video_file_in(p, extensions) == Lower(Suffix(p)) \in extensions

is_video_file(p) == is_video_file_in(p, video_extensions)

\* is_file_stable without the comparison of the two samples
is_file_stable_one_sample(stat1, stat2) ==
    /\ stat1.ok
    /\ stat2.ok
    /\ stat2.size >= min_file_size

\* is_file_stable with megabytes of 1000 * 1000 bytes
is_file_stable_decimal_mb(stat1, stat2) ==
    /\ stat1.ok
    /\ stat2.ok
    /\ stat1.size = stat2.size
    /\ stat1.mtime = stat2.mtime
    /\ stat1.size >= min_file_size_mb * 1000 * 1000

\* the value is_file_stable returns for the two samples it took; os.stat raising
\* OSError (FileNotFoundError is one) is caught and False is returned
is_file_stable(stat1, stat2) ==
    /\ stat1.ok
    /\ stat2.ok
    /\ stat1.size = stat2.size
    /\ stat1.mtime = stat2.mtime
    /\ stat1.size >= min_file_size

(***************************************************************************)
(* JavSPMonitor.__init__                                                   *)
(***************************************************************************)
InitStats == [files_processed |-> 0, files_failed |-> 0,
              total_processing_time |-> 0, last_activity |-> Null]

\* a state file left by an earlier run
PriorSnapshot ==
  Json(
    [stats |-> [files_processed |-> 1, files_failed |-> 0,
                total_processing_time |-> 1, last_activity |-> Stamp],
     completed_files |-> <<"b.MKV">>,
     queue_length |-> 0,
     current_job |-> <<>>])

MainInit == [pc |-> "load_state", todo |-> {}, cur |-> "", new_files |-> <<>>,
             i |-> 1, state |-> <<>>]

WorkerInit == [pc |-> "not_started", job |-> 0, stability_checks |-> 0,
               stat1 |-> OSError]

\* history, of the job the worker holds:
\*   consec   the number of calls of is_file_stable that returned True since the
\*            last one that returned False
\*   samples  "none": is_file_stable has not returned yet; "grew": the file was
\*            larger at the second sample of every call so far; "other": the rest
\*   quiet    how many of the calls counted in consec have begun and ended, each
\*            with its sleep of one sampling interval, since the file was last
\*            created, changed or removed (stability_check_count at most), as long
\*            as process_file is at its stability checks
\*   dirty    the file was created, changed or removed during the sleep in progress
\* of the paths:
\*   failed   the paths whose job ended with a non-zero exit code and for which
\*            add_to_queue has appended no job since
\* and of the scan in progress, as they were when it began:
\*   completed_at_scan  self.completed_files
\*   failed_at_scan     failed
\*   retry_at_scan      failed, less the path whose job the worker had not pruned
\* of self.lock:
\*   unlocked  the collections that a thread has changed while it did not hold
\*             the lock, since the worker thread was started
\* of the signals:
\*   signal_in_flight  how many signals (2: two or more) arrived while the external
\*                     processor was running for the job the worker holds
\* of save_state:
\*   unsaved      a job has changed its status since save_state last wrote the
\*                state file (since the monitor started, if it has written none)
\*   save_failed  "yes": the last call that has returned wrote no complete file;
\*                "recovered": it wrote one and the call before it wrote none;
\*                "no": the rest
\* and of the monitor that ran before this one:
\*   saved    its counters and its completed set when it ended (none: <<>>)
HistoryInit == [consec |-> 0, samples |-> "none", quiet |-> 0, dirty |-> FALSE,
                failed |-> {},
                completed_at_scan |-> {}, failed_at_scan |-> {}, retry_at_scan |-> {},
                unlocked |-> {}, unsaved |-> FALSE,
                signal_in_flight |-> 0, save_failed |-> "no", saved |-> <<>>]

\* the history of the scan, once the scan is over
NoScan(h) == [h EXCEPT !.completed_at_scan = {}, !.failed_at_scan = {},
                       !.retry_at_scan = {}]

\* the history, once a thread that holds held (self.lock is free, or the other
\* thread has it) has changed the collection what
WithoutLock(h, what, held) ==
    IF worker.pc # "not_started"
    THEN [h EXCEPT !.unlocked = @ \cup {what}]
    ELSE h

\* the history of the job, when the worker holds none
NoJob(h) == [h EXCEPT !.consec = 0, !.samples = "none", !.quiet = 0, !.dirty = FALSE]

\* the history of the job, once the stability checks of process_file are over
Started(h) == [h EXCEPT !.quiet = 0, !.dirty = FALSE]

Init ==
    /\ fs = [p \in Paths |-> Absent]
    /\ proc = NoProc
    /\ state_file \in {NoFile, Corrupt, PriorSnapshot}
    /\ processing_queue = <<>>
    /\ completed_files = {}
    /\ is_running = TRUE
    /\ current_job = 0
    /\ stats = InitStats
    /\ main = MainInit
    /\ worker = WorkerInit
    /\ lock = "free"
    /\ history = HistoryInit

(***************************************************************************)
(* The main thread: JavSPMonitor.run                                       *)
(***************************************************************************)
\* load_state that leaves the completed set as it is
load_state_counters_only ==
    /\ main.pc = "load_state"
    /\ IF state_file.kind # "json"
       THEN UNCHANGED stats
       ELSE stats' = get_stats(state_file.doc[1])
    /\ main' = [main EXCEPT !.pc = "start_thread"]
    /\ UNCHANGED <<lock, fs, proc, state_file, processing_queue, completed_files, is_running,
                   current_job, worker, history>>

\* load_state: a missing file, or one json.load cannot read, leaves the fields as
\* they are; self.stats.update(...) comes before self.completed_files.update(...),
\* which raises on a value it cannot iterate over; the exception is caught
load_state ==
    /\ main.pc = "load_state"
    /\ IF state_file.kind # "json"
       THEN UNCHANGED <<stats, completed_files>>
       ELSE LET doc == state_file.doc[1] IN
            /\ stats' = get_stats(doc)
            /\ IF is_null(doc.completed_files)
               THEN UNCHANGED completed_files
               ELSE completed_files' =
                        completed_files \cup Range(Items(doc.completed_files))
    /\ main' = [main EXCEPT !.pc = "start_thread"]
    /\ UNCHANGED <<lock, fs, proc, state_file, processing_queue, is_running, current_job,
                   worker, history>>

\* processing_thread.start()
start_thread ==
    /\ main.pc = "start_thread"
    /\ main' = [main EXCEPT !.pc = "loop"]
    /\ worker' = [worker EXCEPT !.pc = "loop"]
    /\ UNCHANGED <<fs, proc, state_file, shared, history>>

\* a test of in_queue that looks at the pending jobs only
in_queue_pending(p) ==
    \E j \in Range(processing_queue) : j.file_path = p /\ j.status = "pending"

\* in_queue = any(job.file_path == str(file_path) for job in self.processing_queue)
in_queue(p) == \E j \in Range(processing_queue) : j.file_path = p

\* the loop of run without its condition: the scan begins whatever self.is_running
while_test_forever ==
    /\ main' = [main EXCEPT !.pc = "scan", !.todo = Paths, !.new_files = <<>>, !.i = 1]
    /\ history' = [history EXCEPT
                     !.completed_at_scan = completed_files,
                     !.failed_at_scan = history.failed,
                     !.retry_at_scan =
                         IF worker.pc = "prune"
                         THEN history.failed \ {processing_queue[worker.job].file_path}
                         ELSE history.failed]
    /\ UNCHANGED <<fs, proc, state_file, shared, worker>>

\* the loop of run as `while self.is_running or self.processing_queue`: it goes on
\* until the queue is empty
while_test_drains ==
    /\ IF is_running \/ processing_queue # <<>>
       THEN /\ main' = [main EXCEPT !.pc = "scan", !.todo = Paths, !.new_files = <<>>,
                                    !.i = 1]
            /\ history' = [history EXCEPT
                             !.completed_at_scan = completed_files,
                             !.failed_at_scan = history.failed,
                             !.retry_at_scan =
                                 IF worker.pc = "prune"
                                 THEN history.failed \
                                        {processing_queue[worker.job].file_path}
                                 ELSE history.failed]
       ELSE /\ main' = [main EXCEPT !.pc = "stopped"]
            /\ UNCHANGED history
    /\ UNCHANGED <<fs, proc, state_file, shared, worker>>

\* while self.is_running: scan_for_new_files() begins: new_files = [], the walk starts
while_test ==
    /\ IF is_running
       THEN /\ main' = [main EXCEPT !.pc = "scan", !.todo = Paths, !.new_files = <<>>,
                                    !.i = 1]
            /\ history' = [history EXCEPT
                             !.completed_at_scan = completed_files,
                             !.failed_at_scan = history.failed,
                             !.retry_at_scan =
                                 IF worker.pc = "prune"
                                 THEN history.failed \
                                        {processing_queue[worker.job].file_path}
                                 ELSE history.failed]
       ELSE /\ main' = [main EXCEPT !.pc = "stopped"]
            /\ UNCHANGED history
    /\ UNCHANGED <<fs, proc, state_file, shared, worker>>

\* the first test of the loop condition
run_loop ==
    /\ main.pc = "loop"
    /\ while_test

\* time.sleep(check_interval), or time.sleep(30) after an exception; then the test
run_sleep ==
    /\ main.pc = "sleep"
    /\ while_test

\* the filter without the test of self.completed_files
scan_filter_forgets(p) ==
    /\ fs[p].exists
    /\ is_video_file(p)

\* the filter of scan_for_new_files on a path of the walk
scan_filter(p) ==
    /\ fs[p].exists
    /\ is_video_file(p)
    /\ p \notin completed_files

\* where the walk goes on: the next path, or `return new_files`
scan_next(todo) == IF todo = {} THEN "add_to_queue" ELSE "scan"

\* the walk yields p: lines 186-188
scan_visit(p) ==
    /\ main.pc = "scan"
    /\ p \in main.todo
    /\ IF scan_filter(p)
       THEN main' = [main EXCEPT !.pc = "scan_in_queue", !.cur = p, !.todo = @ \ {p}]
       ELSE main' = [main EXCEPT !.pc = scan_next(main.todo \ {p}),
                                 !.todo = @ \ {p}]
    /\ UNCHANGED <<fs, proc, state_file, shared, worker, history>>

\* lines 191-193 without the test of in_queue
scan_append_always(new_files, p) == Append(new_files, p)

\* new_files after lines 191-193 for the path p
scan_append(new_files, p) == IF in_queue(p) THEN new_files ELSE Append(new_files, p)

scan_in_queue ==
    /\ main.pc = "scan_in_queue"
    /\ main' = [main EXCEPT !.pc = scan_next(main.todo), !.cur = "",
                            !.new_files = scan_append(@, main.cur)]
    /\ UNCHANGED <<fs, proc, state_file, shared, worker, history>>

\* an OSError out of the directory walk: caught in run, logged, time.sleep(30)
run_except ==
    /\ main.pc = "scan"
    /\ main' = [main EXCEPT !.pc = "sleep", !.todo = {}, !.new_files = <<>>]
    /\ history' = NoScan(history)
    /\ UNCHANGED <<fs, proc, state_file, shared, worker>>

\* an add_to_queue that turns away a path the queue holds
add_to_queue_rejects(q, p) ==
    IF Stat(p).ok /\ ~(\E j \in Range(q) : j.file_path = p)
    THEN Append(q, ProcessingJob(p))
    ELSE q

\* add_to_queue(file_path): the queue after the call (os.stat raising is caught)
add_to_queue(q, p) == IF Stat(p).ok THEN Append(q, ProcessingJob(p)) ELSE q

\* for file_path in new_files: self.add_to_queue(file_path)
run_add_to_queue ==
    /\ main.pc = "add_to_queue"
    /\ main.i <= Len(main.new_files)
    \* with self.lock: acquired here, released when the step ends
    /\ lock = "free"
    /\ LET p == main.new_files[main.i] IN
        /\ processing_queue' = add_to_queue(processing_queue, p)
        /\ history' = IF processing_queue' = processing_queue
                      THEN history
                      ELSE [history EXCEPT !.failed = @ \ {p}]
    /\ main' = [main EXCEPT !.i = @ + 1]
    /\ UNCHANGED <<lock, fs, proc, state_file, completed_files, is_running, current_job,
                   stats, worker>>

\* if new_files or self.processing_queue: self.stats['last_activity'] = now
run_last_activity ==
    /\ main.pc = "add_to_queue"
    /\ main.i > Len(main.new_files)
    /\ stats' = IF main.new_files # <<>> \/ processing_queue # <<>>
                THEN [stats EXCEPT !.last_activity = Stamp]
                ELSE stats
    /\ main' = [main EXCEPT !.pc = "save_state", !.i = 1, !.new_files = <<>>]
    /\ history' = NoScan(history)
    /\ UNCHANGED <<lock, fs, proc, state_file, processing_queue, completed_files,
                   is_running, current_job, worker>>

\* job.to_dict()
to_dict(job) == <<job>>

\* list(s) of a set: its members once each, in an order the hashing decides
list(S) == {l \in [1..Cardinality(S) -> S] : Range(l) = S}

\* the counters json.dump may write when self.stats went from `old' to `new' while
\* it was walking the dictionary: key by key, the one value or the other
Torn(old, new) ==
    {[files_processed |-> a, files_failed |-> b, total_processing_time |-> c,
      last_activity |-> new.last_activity] :
        a \in {old.files_processed, new.files_processed},
        b \in {old.files_failed, new.files_failed},
        c \in {old.total_processing_time, new.total_processing_time}}

\* a save_state whose queue_length counts the jobs still pending only
save_state_build_pending ==
    /\ main.pc = "save_state"
    /\ \E l \in list(completed_files) :
          main' = [main EXCEPT
                     !.pc = "save_state_test",
                     !.state = <<[completed_files |-> l,
                                  queue_length |->
                                      Cardinality(Places(processing_queue, {"pending"})),
                                  current_job |-> <<>>]>>]
    /\ UNCHANGED <<fs, proc, state_file, shared, worker, history>>

\* save_state, the dictionary: list(self.completed_files), len(self.processing_queue)
save_state_build ==
    /\ main.pc = "save_state"
    /\ \E l \in list(completed_files) :
          main' = [main EXCEPT
                     !.pc = "save_state_test",
                     !.state = <<[completed_files |-> l,
                                  queue_length |-> Len(processing_queue),
                                  current_job |-> <<>>]>>]
    /\ UNCHANGED <<fs, proc, state_file, shared, worker, history>>

\* `... if self.current_job else None`: the test of the conditional expression,
\* evaluated after len(self.processing_queue)
save_state_test ==
    /\ main.pc = "save_state_test"
    /\ main' = [main EXCEPT !.pc = IF current_job = 0 THEN "save_state_write"
                                                      ELSE "save_state_job"]
    /\ UNCHANGED <<fs, proc, state_file, shared, worker, history>>

\* self.current_job.to_dict(): the field is read a second time, and the worker may
\* have set it to None since the test (AttributeError, caught: nothing is written)
save_state_job ==
    /\ main.pc = "save_state_job"
    /\ IF current_job = 0
       THEN /\ main' = [main EXCEPT !.pc = "sleep", !.state = <<>>]
            /\ history' = [history EXCEPT !.save_failed = "yes"]
       ELSE /\ main' = [main EXCEPT
                          !.pc = "save_state_write",
                          !.state[1].current_job =
                              to_dict(processing_queue[current_job])]
            /\ UNCHANGED history
    /\ UNCHANGED <<fs, proc, state_file, shared, worker>>

\* open(state_file, 'w') truncates the file, and json.dump begins to walk `state',
\* whose 'stats' is self.stats itself
save_state_open ==
    /\ main.pc = "save_state_write"
    /\ state_file' = Corrupt
    /\ main' = [main EXCEPT
                  !.pc = "save_state_dump",
                  !.state = <<[stats |-> stats,
                               completed_files |-> main.state[1].completed_files,
                               queue_length |-> main.state[1].queue_length,
                               current_job |-> main.state[1].current_job]>>]
    /\ UNCHANGED <<fs, proc, shared, worker, history>>

\* json.dump(state, f) ends and the file is closed: the worker thread may have
\* changed self.stats since the dump began
save_state_dump ==
    /\ main.pc = "save_state_dump"
    /\ \E written \in Torn(main.state[1].stats, stats) :
          state_file' = Json([main.state[1] EXCEPT !.stats = written])
    /\ main' = [main EXCEPT !.pc = "sleep", !.state = <<>>]
    /\ history' = [history EXCEPT
                     !.unsaved = FALSE,
                     !.save_failed = IF @ = "yes" THEN "recovered" ELSE "no"]
    /\ UNCHANGED <<fs, proc, shared, worker>>

\* open(state_file, 'w') raises (the directory cannot be written): caught and logged
save_state_denied ==
    /\ main.pc = "save_state_write"
    /\ main' = [main EXCEPT !.pc = "sleep", !.state = <<>>]
    /\ history' = [history EXCEPT !.save_failed = "yes"]
    /\ UNCHANGED <<fs, proc, state_file, shared, worker>>

\* the write fails after the file was opened (truncated): caught and logged
save_state_fails ==
    /\ main.pc = "save_state_dump"
    /\ main' = [main EXCEPT !.pc = "sleep", !.state = <<>>]
    /\ history' = [history EXCEPT !.save_failed = "yes"]
    /\ UNCHANGED <<fs, proc, state_file, shared, worker>>

\* cleanup_old_logs, once a day before the sleep: it touches log files only
cleanup_old_logs ==
    /\ main.pc = "sleep"
    /\ UNCHANGED vars

\* run returns, main returns, the interpreter exits and the daemon thread with it
run_exit ==
    /\ main.pc = "stopped"
    /\ main' = [main EXCEPT !.pc = "exited"]
    /\ UNCHANGED <<fs, proc, state_file, shared, worker, history>>

\* a handler that flips the flag
signal_handler_toggles ==
    /\ main.pc # "exited"
    /\ is_running' = ~is_running
    /\ history' = [history EXCEPT
                     !.signal_in_flight =
                         IF worker.pc = "wait" /\ proc.running > 0 /\ @ < 2
                         THEN @ + 1
                         ELSE @]
    /\ UNCHANGED <<lock, fs, proc, state_file, processing_queue, completed_files,
                   current_job, stats, main, worker>>

\* signal_handler, on SIGTERM or SIGINT
signal_handler ==
    /\ main.pc # "exited"
    /\ is_running' = FALSE
    /\ history' = [history EXCEPT
                     !.signal_in_flight =
                         IF worker.pc = "wait" /\ proc.running > 0 /\ @ < 2
                         THEN @ + 1
                         ELSE @]
    /\ UNCHANGED <<lock, fs, proc, state_file, processing_queue, completed_files,
                   current_job, stats, main, worker>>

(***************************************************************************)
(* The external processor                                                  *)
(***************************************************************************)
\* the child process ends with some exit code
ProcExit(rc) ==
    /\ main.pc # "exited"
    /\ proc.running > 0
    /\ proc.returncode = -1
    /\ proc' = [running |-> proc.running - 1, returncode |-> rc]
    /\ UNCHANGED <<fs, state_file, shared, main, worker, history>>

(***************************************************************************)
(* The worker thread: process_queue and process_file                       *)
(***************************************************************************)
\* pending_jobs = [job for job in self.processing_queue if job.status == "pending"],
\* as places in the queue
pending_jobs(q) == Places(q, {"pending"})

\* a prune that puts the failed jobs back to pending
RECURSIVE prune_retries(_)
prune_retries(q) ==
    IF q = <<>> THEN <<>>
    ELSE IF Head(q).status = "pending" THEN <<Head(q)>> \o prune_retries(Tail(q))
    ELSE IF Head(q).status = "failed"
         THEN <<[Head(q) EXCEPT !.status = "pending"]>> \o prune_retries(Tail(q))
         ELSE prune_retries(Tail(q))

\* a prune that drops the completed jobs only
prune_keeps_failed(q) == Filter(q, {"pending", "failed"})

\* no prune at all
prune_keeps_all(q) == q

\* a prune that keeps the pending jobs listed up to the job the worker holds: the
\* jobs appended behind it are gone
prune_listed(q) == Filter(SubSeq(q, 1, worker.job), {"pending"})

\* self.processing_queue = [j for j in self.processing_queue if j.status == "pending"]
prune(q) == Filter(q, {"pending"})

\* process_queue with `while True`: it picks whatever self.is_running
process_queue_pick_always ==
    /\ worker.pc = "loop"
    /\ main.pc # "exited"
    /\ IF /\ pending_jobs(processing_queue) # {}
          /\ stats.files_processed + stats.files_failed < MaxJobs
       THEN worker' = [worker EXCEPT !.pc = "process_file",
                                     !.job = Min(pending_jobs(processing_queue))]
       ELSE UNCHANGED worker
    /\ UNCHANGED <<fs, proc, state_file, shared, main, history>>

\* process_queue taking pending_jobs[-1], the pending job enqueued last
process_queue_pick_newest ==
    /\ worker.pc = "loop"
    /\ main.pc # "exited"
    /\ lock = "free"
    /\ IF ~is_running
       THEN worker' = [worker EXCEPT !.pc = "done"]
       ELSE IF /\ pending_jobs(processing_queue) # {}
               /\ stats.files_processed + stats.files_failed < MaxJobs
            THEN worker' = [worker EXCEPT
                              !.pc = "process_file",
                              !.job = CHOOSE i \in pending_jobs(processing_queue) :
                                         \A j \in pending_jobs(processing_queue) : j <= i]
            ELSE UNCHANGED worker
    /\ UNCHANGED <<fs, proc, state_file, shared, main, history>>

\* process_queue with process_file called inside the `with self.lock:` block
process_queue_pick_holds ==
    /\ worker.pc = "loop"
    /\ main.pc # "exited"
    /\ lock = "free"
    /\ IF ~is_running
       THEN worker' = [worker EXCEPT !.pc = "done"] /\ UNCHANGED lock
       ELSE IF /\ pending_jobs(processing_queue) # {}
               /\ stats.files_processed + stats.files_failed < MaxJobs
            THEN /\ worker' = [worker EXCEPT !.pc = "process_file",
                                             !.job = Min(pending_jobs(processing_queue))]
                 /\ lock' = "worker"
            ELSE UNCHANGED <<worker, lock>>
    /\ UNCHANGED <<fs, proc, state_file, processing_queue, completed_files,
                   is_running, current_job, stats, main, history>>

\* while self.is_running: with self.lock: pending_jobs = ...; job = pending_jobs[0]
\* (with nothing pending the worker sleeps five seconds and comes back here)
process_queue_pick ==
    /\ worker.pc = "loop"
    /\ main.pc # "exited"
    \* with self.lock: acquired here, released when the step ends
    /\ lock = "free"
    /\ IF ~is_running
       THEN worker' = [worker EXCEPT !.pc = "done"]
       ELSE IF /\ pending_jobs(processing_queue) # {}
               /\ stats.files_processed + stats.files_failed < MaxJobs
            THEN worker' = [worker EXCEPT !.pc = "process_file",
                                          !.job = Min(pending_jobs(processing_queue))]
            ELSE UNCHANGED worker
    /\ UNCHANGED <<fs, proc, state_file, shared, main, history>>

\* a loop test that is off by one
gate_next_short(n) == IF n < stability_check_count - 1 THEN "stat1" ELSE "popen"

\* where process_file goes with stability_checks = n: `while n < count`, then Popen
gate_next(n) == IF n < stability_check_count THEN "stat1" ELSE "popen"

\* process_file: job.status = "processing"; self.current_job = job; stability_checks = 0
process_file_begin ==
    /\ worker.pc = "process_file"
    /\ main.pc # "exited"
    /\ processing_queue' = SetStatus(processing_queue, worker.job, "processing")
    /\ current_job' = worker.job
    /\ worker' = [worker EXCEPT !.stability_checks = 0, !.pc = gate_next(0)]
    /\ history' = [NoJob(history) EXCEPT !.unsaved = TRUE]
    /\ UNCHANGED <<lock, fs, proc, state_file, completed_files, is_running, stats, main>>

\* a loop body without the else branch (no reset)
count_check_keeps(stability_checks, stable) ==
    IF stable THEN stability_checks + 1 ELSE stability_checks

\* stability_checks after one pass of the loop body, given what is_file_stable returned
count_check(stability_checks, stable) == IF stable THEN stability_checks + 1 ELSE 0

\* a pass of the while loop without `if not self.is_running: return False`
after_check_unobserved(stat1, stat2) ==
    LET stable == is_file_stable(stat1, stat2)
        n == count_check(worker.stability_checks, stable) IN
    /\ UNCHANGED current_job
    /\ worker' = [worker EXCEPT !.stability_checks = n, !.stat1 = OSError,
                                !.pc = gate_next(n)]
    /\ history' = [history EXCEPT
                     !.consec = IF stable THEN @ + 1 ELSE 0,
                     !.quiet = IF ~stable \/ history.dirty THEN 0
                               ELSE IF @ < stability_check_count THEN @ + 1 ELSE @,
                     !.dirty = FALSE,
                     !.samples = "other"]

\* the rest of one pass of the while loop once is_file_stable has returned, for the
\* samples stat1 and stat2: count it, `if not self.is_running: return False`
\* (finally: self.current_job = None), then the loop test
after_check(stat1, stat2) ==
    LET stable == is_file_stable(stat1, stat2)
        n == count_check(worker.stability_checks, stable) IN
    /\ IF ~is_running
       THEN /\ current_job' = 0
            /\ worker' = [worker EXCEPT !.stability_checks = n, !.stat1 = OSError,
                                        !.pc = "prune"]
       ELSE /\ UNCHANGED current_job
            /\ worker' = [worker EXCEPT !.stability_checks = n, !.stat1 = OSError,
                                        !.pc = gate_next(n)]
    /\ history' = [history EXCEPT
                     !.consec = IF stable THEN @ + 1 ELSE 0,
                     !.quiet = IF ~stable \/ history.dirty \/ ~is_running THEN 0
                               ELSE IF @ < stability_check_count THEN @ + 1 ELSE @,
                     !.dirty = FALSE,
                     !.samples =
                        IF /\ @ \in {"none", "grew"}
                           /\ stat1.ok /\ stat2.ok /\ stat2.size > stat1.size
                        THEN "grew"
                        ELSE "other"]

\* is_file_stable: stat1 = os.stat(file_path); OSError returns False at once
is_file_stable_stat1 ==
    /\ worker.pc = "stat1"
    /\ main.pc # "exited"
    /\ LET st == Stat(processing_queue[worker.job].file_path) IN
       IF st.ok
       THEN /\ worker' = [worker EXCEPT !.pc = "stat2", !.stat1 = st]
            /\ UNCHANGED <<current_job, history>>
       ELSE after_check(st, st)
    /\ UNCHANGED <<lock, fs, proc, state_file, processing_queue, completed_files,
                   is_running, stats, main>>

\* time.sleep(stability_check_interval); stat2 = os.stat(file_path); return ...
is_file_stable_stat2 ==
    /\ worker.pc = "stat2"
    /\ main.pc # "exited"
    /\ after_check(worker.stat1, Stat(processing_queue[worker.job].file_path))
    /\ UNCHANGED <<lock, fs, proc, state_file, processing_queue, completed_files,
                   is_running, stats, main>>

\* lines 266-278 without the test of the returncode
job_done_any(q, st, done, i, returncode, process_time) ==
    [queue |-> SetStatus(q, i, "completed"),
     stats |-> [st EXCEPT !.files_processed = @ + 1,
                          !.total_processing_time = @ + process_time],
     completed_files |-> done \cup {q[i].file_path}]

\* lines 266-278 with a failure that marks every job of the queue
job_done_wave(q, st, done, i, returncode, process_time) ==
    IF returncode = 0
    THEN [queue |-> SetStatus(q, i, "completed"),
          stats |-> [st EXCEPT !.files_processed = @ + 1,
                               !.total_processing_time = @ + process_time],
          completed_files |-> done \cup {q[i].file_path}]
    ELSE [queue |-> [k \in 1..Len(q) |-> [q[k] EXCEPT !.status = "failed"]],
          stats |-> [st EXCEPT !.files_failed = @ + 1],
          completed_files |-> done]

\* an end of job that counts a failed job as processed too
job_done_counts_both(q, st, done, i, returncode, process_time) ==
    IF returncode = 0
    THEN [queue |-> SetStatus(q, i, "completed"),
          stats |-> [st EXCEPT !.files_processed = @ + 1,
                               !.total_processing_time = @ + process_time],
          completed_files |-> done \cup {q[i].file_path}]
    ELSE [queue |-> SetStatus(q, i, "failed"),
          stats |-> [st EXCEPT !.files_failed = @ + 1, !.files_processed = @ + 1],
          completed_files |-> done]

\* an end of job that assigns the completed set instead of adding to it
job_done_replaces(q, st, done, i, returncode, process_time) ==
    IF returncode = 0
    THEN [queue |-> SetStatus(q, i, "completed"),
          stats |-> [st EXCEPT !.files_processed = @ + 1,
                               !.total_processing_time = @ + process_time],
          completed_files |-> {q[i].file_path}]
    ELSE [queue |-> SetStatus(q, i, "failed"),
          stats |-> [st EXCEPT !.files_failed = @ + 1],
          completed_files |-> done]

\* the queue, the counters and the completed set once the job at place i has ended
\* with `returncode` after process_time (lines 266-278)
job_done(q, st, done, i, returncode, process_time) ==
    IF returncode = 0
    THEN [queue |-> SetStatus(q, i, "completed"),
          stats |-> [st EXCEPT !.files_processed = @ + 1,
                               !.total_processing_time = @ + process_time],
          completed_files |-> done \cup {q[i].file_path}]
    ELSE [queue |-> SetStatus(q, i, "failed"),
          stats |-> [st EXCEPT !.files_failed = @ + 1],
          completed_files |-> done]

\* subprocess.Popen(cmd, ...) starts the child
process_file_popen ==
    /\ worker.pc = "popen"
    /\ main.pc # "exited"
    /\ proc' = [running |-> proc.running + 1, returncode |-> -1]
    /\ worker' = [worker EXCEPT !.pc = "wait"]
    /\ history' = Started(history)
    /\ UNCHANGED <<fs, state_file, shared, main>>

\* subprocess.Popen raises and nothing catches it: the worker thread ends
process_file_popen_unhandled ==
    /\ worker.pc = "popen"
    /\ main.pc # "exited"
    /\ worker' = [worker EXCEPT !.pc = "done"]
    /\ history' = Started(history)
    /\ UNCHANGED <<fs, proc, state_file, shared, main>>

\* subprocess.Popen raises (the command cannot be started): except Exception,
\* job.status = "failed", files_failed += 1; finally: self.current_job = None
process_file_popen_raises ==
    /\ worker.pc = "popen"
    /\ main.pc # "exited"
    /\ processing_queue' = SetStatus(processing_queue, worker.job, "failed")
    /\ stats' = [stats EXCEPT !.files_failed = @ + 1]
    /\ current_job' = 0
    /\ worker' = [worker EXCEPT !.pc = "prune"]
    /\ history' = [Started(history) EXCEPT !.unsaved = TRUE]
    /\ UNCHANGED <<lock, fs, proc, state_file, completed_files, is_running, main>>

\* a readline loop that ends before the child has
child_exited_early(p) == TRUE

\* the readline loop is over: output == '' and process.poll() is not None
child_exited(p) == p.returncode # -1

\* the child has exited; the returncode decides; finally: self.current_job = None
process_file_returncode(process_time) ==
    /\ worker.pc = "wait"
    /\ main.pc # "exited"
    /\ child_exited(proc)
    /\ LET r == job_done(processing_queue, stats, completed_files, worker.job,
                         proc.returncode, process_time) IN
        /\ processing_queue' = r.queue
        /\ stats' = r.stats
        /\ completed_files' = r.completed_files
    /\ current_job' = 0
    /\ proc' = [proc EXCEPT !.returncode = -1]
    /\ worker' = [worker EXCEPT !.pc = "prune"]
    \* self.completed_files.add(file_path) is in no `with self.lock:`
    /\ history' = [(IF proc.returncode = 0
                    THEN WithoutLock(history, "completed_files", lock)
                    ELSE history) EXCEPT
                     !.unsaved = TRUE,
                     !.signal_in_flight = 0,
                     !.failed = IF proc.returncode = 0
                                THEN @
                                ELSE @ \cup {processing_queue[worker.job].file_path}]
    /\ UNCHANGED <<lock, fs, state_file, is_running, main>>

\* back in process_queue: with self.lock: the queue keeps its pending jobs
process_queue_prune ==
    /\ worker.pc = "prune"
    /\ main.pc # "exited"
    \* with self.lock: acquired here, released when the step ends
    /\ lock = "free"
    /\ processing_queue' = prune(processing_queue)
    /\ worker' = [worker EXCEPT !.pc = "loop", !.job = 0, !.stability_checks = 0]
    /\ history' = NoJob(history)
    /\ UNCHANGED <<lock, fs, proc, state_file, completed_files, is_running, current_job,
                   stats, main>>

(***************************************************************************)
(* The specifications.                                                     *)
(*                                                                         *)
(* save_state writes state_file and load_state reads it, once, before the  *)
(* first save_state; no other step of the monitor reads it.  Spec follows  *)
(* the monitor, the worker, the files and the signals with a state         *)
(* directory that cannot be written (every save_state ends in open         *)
(* raising); SpecDisk follows what save_state leaves on disk, with one     *)
(* file arriving in the input directory; SpecPush follows add_to_queue     *)
(* alone, called as `for file_path in new_files` calls it, on any list of  *)
(* paths and any queue the monitor can hold.                               *)
(***************************************************************************)
MainNext ==
    \/ load_state
    \/ start_thread
    \/ run_loop
    \/ run_sleep
    \/ \E p \in Paths : scan_visit(p)
    \/ scan_in_queue
    \/ run_except
    \/ run_add_to_queue
    \/ run_last_activity
    \/ save_state_build
    \/ save_state_test
    \/ save_state_job
    \/ cleanup_old_logs
    \/ run_exit

WorkerNext ==
    \/ process_queue_pick
    \/ process_file_begin
    \/ is_file_stable_stat1
    \/ is_file_stable_stat2
    \/ process_file_popen
    \/ process_file_popen_raises
    \/ \E t \in Durations : process_file_returncode(t)
    \/ process_queue_prune

Next ==
    \/ MainNext
    \/ save_state_denied
    \/ WorkerNext
    \/ \E p \in Paths : FileCreate(p)
    \/ \E p \in Paths : FileGrow(p)
    \/ \E p \in Paths : FileDelete(p)
    \/ \E rc \in ExitCodes : ProcExit(rc)
    \/ signal_handler

Spec == Init /\ [][Next]_vars

NextDisk ==
    \/ MainNext
    \/ save_state_open
    \/ save_state_dump
    \/ save_state_fails
    \/ save_state_denied
    \/ WorkerNext
    \/ \E p \in Copied : FileCreate(p)
    \/ \E p \in Copied : FileGrow(p)
    \/ \E p \in Copied : FileDelete(p)
    \/ \E rc \in ExitCodes : ProcExit(rc)
    \/ signal_handler

SpecDisk == Init /\ [][NextDisk]_vars

\* the most calls of add_to_queue in a row that SpecPush follows
MaxPush == 2

\* a file that is there, whole
Whole == [exists |-> TRUE, size |-> min_file_size, mtime |-> 0]

\* the queues the monitor can hold: one job for a path, pending or (one at most)
\* processing
StartQueues ==
    LET Jobs == {[file_path |-> p, status |-> st] :
                    p \in Paths, st \in {"pending", "processing"}}
    IN {q \in UNION {[1..n -> Jobs] : n \in 0..Cardinality(Paths)} :
          /\ \A i, j \in 1..Len(q) : q[i].file_path = q[j].file_path => i = j
          /\ Cardinality(Places(q, {"processing"})) <= 1}

\* the lists of paths handed to add_to_queue
PushLists == UNION {[1..n -> Paths] : n \in 1..MaxPush}

InitPush ==
    /\ fs \in [Paths -> {Absent, Whole}]
    /\ proc = NoProc
    /\ state_file = NoFile
    /\ processing_queue \in StartQueues
    /\ completed_files = {}
    /\ is_running = TRUE
    /\ current_job = IF Places(processing_queue, {"processing"}) = {}
                     THEN 0
                     ELSE Min(Places(processing_queue, {"processing"}))
    /\ stats = InitStats
    /\ \E new_files \in PushLists :
          main = [MainInit EXCEPT !.pc = "add_to_queue", !.new_files = new_files]
    /\ worker = IF current_job = 0
                THEN [WorkerInit EXCEPT !.pc = "loop"]
                ELSE [WorkerInit EXCEPT !.pc = "stat1", !.job = current_job]
    /\ lock = "free"
    /\ history = HistoryInit

NextPush == run_add_to_queue

SpecPush == InitPush /\ [][NextPush]_vars

(***************************************************************************)
(* Progress (SpecLive): the monitor with both files in the input directory *)
(* when it starts, a.mp4 still empty; the writer may append to a.mp4 and   *)
(* either file may be removed, and none comes back, so that every file     *)
(* stops changing.  Both threads are scheduled again and again (the main   *)
(* thread's sleeps end, and so does every `with self.lock:` block of the   *)
(* other thread), and the external processor ends.                         *)
(***************************************************************************)
InitLive ==
    /\ fs = [p \in Paths |-> IF p \in Copied
                             THEN [exists |-> TRUE, size |-> 0, mtime |-> 0]
                             ELSE Whole]
    /\ proc = NoProc
    /\ state_file = NoFile
    /\ processing_queue = <<>>
    /\ completed_files = {}
    /\ is_running = TRUE
    /\ current_job = 0
    /\ stats = InitStats
    /\ main = MainInit
    /\ worker = WorkerInit
    /\ lock = "free"
    /\ history = HistoryInit

MainLive == MainNext \/ save_state_denied

ProcLive == \E rc \in ExitCodes : ProcExit(rc)

NextLive ==
    \/ MainLive
    \/ WorkerNext
    \/ \E p \in Paths : FileGrow(p)
    \/ \E p \in Paths : FileDelete(p)
    \/ ProcLive
    \/ signal_handler

SpecLive ==
    /\ InitLive
    /\ [][NextLive]_vars
    /\ WF_vars(MainLive)
    /\ WF_vars(WorkerNext)
    /\ WF_vars(ProcLive)

(***************************************************************************)
(* The queue alone (SpecQueue): add_to_queue, the pick and the prune of    *)
(* process_queue on a queue of up to three jobs, with three video files in *)
(* the input directory.  The job the worker holds, if any, is at the front *)
(* (it was taken from there, and jobs are appended behind it).             *)
(***************************************************************************)
QueuePaths == Paths \cup {"c.Mp4"}

\* the lists of distinct paths
Distinct(S) ==
    {l \in UNION {[1..n -> S] : n \in 0..Cardinality(S)} :
        \A i, j \in 1..Len(l) : l[i] = l[j] => i = j}

InitQueue ==
    /\ fs = [p \in QueuePaths |-> Whole]
    /\ proc = NoProc
    /\ state_file = NoFile
    /\ \E l \in Distinct(QueuePaths),
          st \in {"pending", "processing", "completed", "failed"} :
          /\ processing_queue =
                 [i \in 1..Len(l) |->
                     [file_path |-> l[i],
                      status |-> IF i = 1 THEN st ELSE "pending"]]
          /\ worker = IF l = <<>> \/ st = "pending"
                      THEN [WorkerInit EXCEPT !.pc = "loop"]
                      ELSE [WorkerInit EXCEPT !.pc = "prune", !.job = 1]
          /\ \E new_files \in Distinct(QueuePaths \ Range(l)) :
                main = [MainInit EXCEPT !.pc = "add_to_queue", !.new_files = new_files]
    /\ completed_files = {}
    /\ is_running = TRUE
    /\ current_job = 0
    /\ stats = InitStats
    /\ lock = "free"
    /\ history = HistoryInit

NextQueue ==
    \/ run_add_to_queue
    \/ process_queue_pick
    \/ process_queue_prune

SpecQueue == InitQueue /\ [][NextQueue]_vars

(***************************************************************************)
(* is_video_file alone (SpecSuffix): any of a few file names, and any list *)
(* of extensions a user may have put in the configuration file, in lower,  *)
(* upper or mixed case.                                                    *)
(***************************************************************************)
FileNames == Paths \cup {"c.Mp4", "d.nfo", "README"}
UserExtensions == {".mp4", ".MP4", ".mkv", ".Mkv", ".NFO"}

InitSuffix ==
    /\ fs = [p \in Paths |-> Absent]
    /\ proc = NoProc
    /\ state_file = NoFile
    /\ processing_queue = <<>>
    /\ completed_files = {}
    /\ is_running = TRUE
    /\ current_job = 0
    /\ stats = InitStats
    /\ \E file_path \in FileNames, extensions \in SUBSET UserExtensions :
          main = [MainInit EXCEPT !.pc = "is_video_file",
                                  !.state = <<[file_path |-> file_path,
                                               video_extensions |-> extensions]>>]
    /\ worker = WorkerInit
    /\ lock = "free"
    /\ history = HistoryInit

\* one call of is_video_file, under the configuration the monitor was loaded with
is_video_file_call ==
    /\ main.pc = "is_video_file"
    /\ LET file_path == main.state[1].file_path
           extensions == main.state[1].video_extensions
       IN main' = [main EXCEPT
                     !.pc = "returned",
                     !.state = <<[file_path |-> file_path,
                                  video_extensions |-> extensions,
                                  returned |-> is_video_file_in(file_path, extensions)]>>]
    /\ UNCHANGED <<fs, proc, state_file, shared, worker, history>>

NextSuffix == is_video_file_call

SpecSuffix == InitSuffix /\ [][NextSuffix]_vars

(***************************************************************************)
(* scan_for_new_files alone (SpecScan): one call, on any input directory   *)
(* (there or not, with any of the paths a regular file below it), any      *)
(* completed set and any queue the monitor can hold.                       *)
(***************************************************************************)
InitScan ==
    /\ proc = NoProc
    /\ state_file = NoFile
    /\ processing_queue \in StartQueues
    /\ completed_files \in SUBSET Paths
    /\ is_running = TRUE
    /\ current_job = IF Places(processing_queue, {"processing"}) = {}
                     THEN 0
                     ELSE Min(Places(processing_queue, {"processing"}))
    /\ stats = InitStats
    /\ \E input_dir \in BOOLEAN :
          /\ fs \in [Paths -> {Absent, Whole}]
          \* nothing is below a directory that is not there
          /\ ~input_dir => fs = [p \in Paths |-> Absent]
          /\ main = [MainInit EXCEPT !.pc = "scan_for_new_files",
                                     !.state = <<[input_dir |-> input_dir]>>]
    /\ worker = IF current_job = 0
                THEN [WorkerInit EXCEPT !.pc = "loop"]
                ELSE [WorkerInit EXCEPT !.pc = "stat1", !.job = current_job]
    /\ lock = "free"
    /\ history = HistoryInit

\* new_files = []; if not input_dir.exists(): return new_files; else the walk
scan_for_new_files ==
    /\ main.pc = "scan_for_new_files"
    /\ IF main.state[1].input_dir
       THEN main' = [main EXCEPT !.pc = "scan", !.todo = Paths, !.new_files = <<>>]
       ELSE main' = [main EXCEPT !.pc = "add_to_queue", !.new_files = <<>>]
    /\ UNCHANGED <<fs, proc, state_file, shared, worker, history>>

NextScan ==
    \/ scan_for_new_files
    \/ \E p \in Paths : scan_visit(p)
    \/ scan_in_queue

SpecScan == InitScan /\ [][NextScan]_vars

(***************************************************************************)
(* save_state and load_state alone: a monitor with any counters and any    *)
(* completed set saves its state and ends, and a new monitor loads the     *)
(* file.  SpecLoad: a new monitor loads any file.                          *)
(***************************************************************************)
\* the largest value of a counter that SpecRoundTrip and SpecLoad start from
MaxCount == 12

\* the values of a counter: none, one, and one of two digits
Counts == {0, 1, MaxCount}

\* self.stats, after any run
AnyStats ==
    [files_processed : Counts, files_failed : Counts,
     total_processing_time : Counts, last_activity : {Null, Stamp}]

InitRoundTrip ==
    /\ fs = [p \in Paths |-> Absent]
    /\ proc = NoProc
    /\ state_file \in {NoFile, Corrupt}
    /\ processing_queue \in StartQueues
    /\ completed_files \in SUBSET Paths
    /\ is_running = TRUE
    /\ current_job = IF Places(processing_queue, {"processing"}) = {}
                     THEN 0
                     ELSE Min(Places(processing_queue, {"processing"}))
    /\ stats \in AnyStats
    /\ main = [MainInit EXCEPT !.pc = "save_state"]
    /\ worker = IF current_job = 0
                THEN [WorkerInit EXCEPT !.pc = "loop"]
                ELSE [WorkerInit EXCEPT !.pc = "stat1", !.job = current_job]
    /\ lock = "free"
    /\ history = HistoryInit

\* the process ends after save_state has returned, and JavSPMonitor() is built anew
restart ==
    /\ main.pc = "sleep"
    /\ history.saved = <<>>
    /\ processing_queue' = <<>>
    /\ completed_files' = {}
    /\ is_running' = TRUE
    /\ current_job' = 0
    /\ stats' = InitStats
    /\ main' = MainInit
    /\ worker' = WorkerInit
    /\ lock' = "free"
    /\ history' = [HistoryInit EXCEPT
                     !.saved = <<[stats |-> stats, completed_files |-> completed_files]>>]
    /\ UNCHANGED <<fs, proc, state_file>>

NextRoundTrip ==
    \/ save_state_build
    \/ save_state_test
    \/ save_state_job
    \/ save_state_open
    \/ save_state_dump
    \/ save_state_fails
    \/ save_state_denied
    \/ restart
    \/ load_state

SpecRoundTrip == InitRoundTrip /\ [][NextRoundTrip]_vars

\* the files a monitor may find: none, an unreadable one, what save_state writes,
\* and a JSON object whose 'completed_files' is null
StateFiles ==
    LET Written == {Json([stats |-> st, completed_files |-> l,
                          queue_length |-> 0, current_job |-> <<>>]) :
                       st \in AnyStats, l \in UNION {list(S) : S \in SUBSET Paths}}
    IN {NoFile, Corrupt} \cup Written \cup {NullList(f) : f \in Written}

InitLoad ==
    /\ fs = [p \in Paths |-> Absent]
    /\ proc = NoProc
    /\ state_file \in StateFiles
    /\ processing_queue = <<>>
    /\ completed_files = {}
    /\ is_running = TRUE
    /\ current_job = 0
    /\ stats = InitStats
    /\ main = MainInit
    /\ worker = WorkerInit
    /\ lock = "free"
    /\ history = HistoryInit

NextLoad == load_state

SpecLoad == InitLoad /\ [][NextLoad]_vars

(***************************************************************************)
(* is_file_stable alone (SpecStable): any two samples, each one OSError or *)
(* a size and an mtime, the sizes around min_file_size.                    *)
(***************************************************************************)
Sizes == {0, min_file_size - 1, min_file_size, min_file_size + 1}
Mtimes == {0, 1}
Samples == {OSError} \cup [ok : {TRUE}, size : Sizes, mtime : Mtimes]

InitStable ==
    /\ fs = [p \in Paths |-> Absent]
    /\ proc = NoProc
    /\ state_file = NoFile
    /\ processing_queue = <<>>
    /\ completed_files = {}
    /\ is_running = TRUE
    /\ current_job = 0
    /\ stats = InitStats
    /\ \E stat1 \in Samples, stat2 \in Samples :
          \* os.stat raised at the first sample: the second is never taken
          /\ ~stat1.ok => stat2 = OSError
          /\ main = [MainInit EXCEPT !.pc = "is_file_stable",
                                     !.state = <<[stat1 |-> stat1, stat2 |-> stat2]>>]
    /\ worker = WorkerInit
    /\ lock = "free"
    /\ history = HistoryInit

\* one call of is_file_stable, for the two samples it takes
is_file_stable_call ==
    /\ main.pc = "is_file_stable"
    /\ LET stat1 == main.state[1].stat1
           stat2 == main.state[1].stat2
       IN main' = [main EXCEPT
                     !.pc = "returned",
                     !.state = <<[stat1 |-> stat1, stat2 |-> stat2,
                                  returned |-> is_file_stable(stat1, stat2)]>>]
    /\ UNCHANGED <<fs, proc, state_file, shared, worker, history>>

NextStable == is_file_stable_call

SpecStable == InitStable /\ [][NextStable]_vars

(***************************************************************************)
(* load_config alone (SpecConfig): the defaults of a monitor and any user  *)
(* document.  A JSON value is a leaf (a number, a string, a boolean, a     *)
(* list) or a mapping from keys to values.                                 *)
(***************************************************************************)
Leaf(v) == [kind |-> "leaf", val |-> v]
Dict(f) == [kind |-> "dict", val |-> f]

\* the keys a user document may hold: at the top, in a mapping below the top, and
\* in a mapping below that one
TopKeys == {"check_interval", "maintenance"}
InnerKeys == {"enabled", "tasks"}
DeepKeys == {"cleanup_logs", "update_stats"}

\* the leaves of a user document: a boolean and a list
UserLeaves == {Leaf("False"), Leaf("[]")}

\* the mappings from some of the keys to the values
MappingsOf(Keys, Values) == UNION {[S -> Values] : S \in SUBSET Keys}

\* the user documents: mappings three deep at most
DeepMappings == MappingsOf(DeepKeys, UserLeaves)
InnerMappings == MappingsOf(InnerKeys, UserLeaves \cup {Dict(f) : f \in DeepMappings})
UserDocuments == MappingsOf(TopKeys, UserLeaves \cup {Dict(f) : f \in InnerMappings})

\* the monitors: smart_monitor.py, and health_check.py (system_monitor.py has the
\* same load_config and _merge_config)
Monitors == {"smart_monitor", "health_check"}

\* default_config of each: smart_monitor's holds no mapping; health_check's
\* "maintenance" holds a mapping that holds a mapping
default_config(monitor) ==
    IF monitor = "smart_monitor"
    THEN ("check_interval" :> Leaf("60"))
    ELSE ("maintenance" :>
            Dict(("enabled" :> Leaf("True")) @@
                 ("tasks" :> Dict(("cleanup_logs" :> Leaf("True")) @@
                                  ("update_stats" :> Leaf("True"))))))

\* default_config.update(user_config)
update(default, user) ==
    [key \in DOMAIN default \cup DOMAIN user |->
        IF key \in DOMAIN user THEN user[key] ELSE default[key]]

\* _merge_config without the recursion: every key of user replaces
merge_config_shallow(default, user) ==
    [key \in DOMAIN default \cup DOMAIN user |->
        IF key \in DOMAIN user THEN user[key] ELSE default[key]]

\* _merge_config(default, user): `default' once the loop over user.items() is over
RECURSIVE merge_config(_, _)
merge_config(default, user) ==
    [key \in DOMAIN default \cup DOMAIN user |->
        IF key \notin DOMAIN user
        THEN default[key]
        ELSE IF /\ key \in DOMAIN default
                /\ default[key].kind = "dict"
                /\ user[key].kind = "dict"
             THEN Dict(merge_config(default[key].val, user[key].val))
             ELSE user[key]]

\* the configuration files: none, one json.load cannot read, or a document
ConfigFiles ==
    {NoFile, Corrupt} \cup {[kind |-> "json", doc |-> <<user>>] : user \in UserDocuments}

InitConfig ==
    /\ fs = [p \in Paths |-> Absent]
    /\ proc = NoProc
    /\ state_file = NoFile
    /\ processing_queue = <<>>
    /\ completed_files = {}
    /\ is_running = TRUE
    /\ current_job = 0
    /\ stats = InitStats
    /\ \E monitor \in Monitors, file \in ConfigFiles :
          main = [MainInit EXCEPT !.pc = "load_config",
                                  !.state = <<[monitor |-> monitor, file |-> file]>>]
    /\ worker = WorkerInit
    /\ lock = "free"
    /\ history = HistoryInit

\* load_config: the defaults when there is no file or when reading it raises,
\* else the defaults with the user document merged in
load_config ==
    /\ main.pc = "load_config"
    /\ LET monitor == main.state[1].monitor
           file == main.state[1].file
           config == IF file.kind # "json"
                     THEN default_config(monitor)
                     ELSE IF monitor = "smart_monitor"
                          THEN update(default_config(monitor), file.doc[1])
                          ELSE merge_config(default_config(monitor), file.doc[1])
       IN main' = [main EXCEPT
                     !.pc = "setup_logging",
                     !.state = <<[monitor |-> monitor, file |-> file,
                                  config |-> config]>>]
    /\ UNCHANGED <<fs, proc, state_file, shared, worker, history>>

NextConfig == load_config

SpecConfig == InitConfig /\ [][NextConfig]_vars

(***************************************************************************)
(* The claims.                                                             *)
(***************************************************************************)
\* the jobs of q for the path p that are pending or processing
Live(q, p) == {i \in 1..Len(q) : /\ q[i].file_path = p
                                 /\ q[i].status \in {"pending", "processing"}}

\* the paths of the jobs of q whose status is in statuses
PathsOf(q, statuses) == {q[i].file_path : i \in Places(q, statuses)}

\* C1: in every state of the running monitor, with the scan loop and the worker
\* interleaved in any order, no two jobs of processing_queue have the same
\* file_path.
C1_OneJobPerPath ==
    \A i, j \in 1..Len(processing_queue) :
        processing_queue[i].file_path = processing_queue[j].file_path => i = j

\* C1, its case: the scan comes upon a path that has a job in the queue while the
\* worker is between the two samples of a stability check.
C1_ScanMeetsQueuedPath ==
    /\ main.pc = "scan_in_queue"
    /\ in_queue(main.cur)
    /\ worker.pc = "stat2"
    /\ Len(processing_queue) = 2

\* a step of `for file_path in new_files: self.add_to_queue(file_path)`, and the
\* path it hands over
PushStep ==
    /\ main.pc = "add_to_queue"
    /\ main.i <= Len(main.new_files)
    /\ main'.i = main.i + 1
Pushed == main.new_files[main.i]

C3_CompletedNotReturned ==
    /\ Range(main.new_files) \cap history.completed_at_scan = {}
    /\ main.pc = "scan_in_queue" => main.cur \notin history.completed_at_scan

\* C3, its case: the scan has walked past a file that is there, has an accepted
\* extension, and whose path was in the completed set when the scan began.
C3_ScanPassedCompletedFile ==
    /\ main.pc \in {"scan", "add_to_queue"}
    /\ \E p \in history.completed_at_scan :
          /\ fs[p].exists
          /\ is_video_file(p)
          /\ p \notin main.todo
          /\ PathsOf(processing_queue, {"completed"}) = {}

\* the job the worker holds, and its path
Held == processing_queue[worker.job]
HeldPath == processing_queue[worker.job].file_path

\* C4: while every call of is_file_stable for the job has found the file larger at
\* its second sample than at its first, no call has returned True: the count of
\* consecutive successes is zero and the external processor is not started.
C4_GrowingNeverReady ==
    history.samples = "grew" =>
        /\ history.consec = 0
        /\ worker.stability_checks = 0
        /\ worker.pc \notin {"popen", "wait"}

\* C4, its case: a check has sampled a growing file that is already as large as
\* min_file_size_mb asks, and the worker is about to sample it again.
C4_GrowingFileSampled ==
    /\ worker.pc = "stat1"
    /\ history.samples = "grew"
    /\ fs[HeldPath].size > min_file_size

\* C5: the external processor is started only when the last stability_check_count
\* calls of is_file_stable for the job all returned True, and the counter the loop
\* keeps is the number of calls that returned True since the last that returned
\* False (zero right after a False).
C5_InvokedAfterNConsecutive ==
    /\ worker.pc \in {"popen", "wait"} => history.consec >= stability_check_count
    /\ worker.stability_checks = history.consec

\* C5, its case: the external processor runs for a job whose file was sampled
\* after it had changed (a.mp4 is written in place, so its checks can fail).
C5_ProcessorRunning ==
    /\ worker.pc = "wait"
    /\ proc.running = 1
    /\ history.consec = stability_check_count
    /\ HeldPath \in Copied
    /\ fs[HeldPath].exists
    /\ fs[HeldPath].mtime > 0

ReturnStep == worker.pc = "wait" /\ worker'.pc = "prune"

FailedFrame ==
    ReturnStep /\ proc.returncode # 0 =>
        /\ processing_queue'[worker.job].status = "failed"
        /\ stats'.files_failed = stats.files_failed + 1
        /\ stats'.files_processed = stats.files_processed
        /\ completed_files' = completed_files

\* of the paths in S, the scan returns each one it finds there (and each one not
\* in Barred)
ScanReturns(S, Barred) ==
    /\ \A p \in S :
          /\ main.pc = "scan" /\ p \in main.todo /\ p \notin main'.todo
          /\ main'.pc # "sleep"
          /\ fs[p].exists
          /\ p \notin Barred
          => main'.pc = "scan_in_queue"
    /\ main.pc = "scan_in_queue" /\ main'.pc # "scan_in_queue" /\ main.cur \in S
          => main.cur \in Range(main'.new_files)

C10_NoRetry ==
    /\ [](/\ Places(processing_queue, {"failed"}) # {} => worker.pc = "prune"
          /\ worker.pc = "process_file" => Held.status = "pending")
    /\ [][Cardinality(Places(processing_queue', {"pending"}))
             > Cardinality(Places(processing_queue, {"pending"}))
          => /\ PushStep
             /\ processing_queue' = Append(processing_queue, ProcessingJob(Pushed))]_vars

\* C10, its case: the first job of the queue has failed and a pending job waits
\* behind it for the worker's next pick.
C10_FailedBeforePrune ==
    /\ worker.pc = "prune"
    /\ Len(processing_queue) = 2
    /\ processing_queue[1].status = "failed"
    /\ processing_queue[2].status = "pending"

\* the step of process_file in which subprocess.Popen raises
PopenRaisesStep == worker.pc = "popen" /\ worker'.pc = "prune"

\* the step in which an invocation of the external processor fails
InvocationFails == (ReturnStep /\ proc.returncode # 0) \/ PopenRaisesStep

C12_RoundTrip ==
    (main.pc = "start_thread" /\ history.saved # <<>> /\ state_file.kind = "json") =>
        /\ stats = history.saved[1].stats
        /\ completed_files = history.saved[1].completed_files

\* C12, its case: a monitor with a counter of two digits, a last_activity and two
\* completed paths has saved its state, and a new monitor has loaded the file.
C12_LoadedWhatWasSaved ==
    /\ main.pc = "start_thread"
    /\ history.saved # <<>>
    /\ state_file.kind = "json"
    /\ history.saved[1].stats.files_processed >= 10
    /\ history.saved[1].stats.last_activity = Stamp
    /\ Cardinality(history.saved[1].completed_files) = 2
    /\ stats.files_processed >= 10

\* the counters and the completed set that a state file written by save_state holds
PersistedStats == get_stats(state_file.doc[1])
PersistedCompleted == Range(Items(state_file.doc[1].completed_files))

\* C13: with a valid state file, the worker thread is not started and no scan has
\* begun before load_state has returned; from then on and until the worker thread
\* is started the counters are the persisted ones; the persisted completed paths
\* are in the completed set from then on, and no scan returns one of them.
C13_LoadedBeforeWorkerAndScan ==
    state_file.kind = "json" =>
        /\ main.pc = "load_state" =>
              /\ worker.pc = "not_started"
              /\ processing_queue = <<>> /\ main.new_files = <<>>
              /\ history.completed_at_scan = {}
        /\ worker.pc = "not_started" /\ main.pc # "load_state" =>
              /\ stats = PersistedStats
              /\ completed_files = PersistedCompleted
        /\ main.pc # "load_state" =>
              /\ PersistedCompleted \subseteq completed_files
              /\ Range(main.new_files) \cap PersistedCompleted = {}
              /\ PathsOf(processing_queue, {"pending", "processing"})
                    \cap PersistedCompleted = {}

\* C13, its case: a scan has ended before any job was queued, the counters are still
\* the persisted ones, and the file of a persisted completed path is there with
\* an accepted extension and was not returned.
C13_ScanAfterLoadSkippedPersisted ==
    /\ state_file.kind = "json"
    /\ main.pc = "add_to_queue"
    /\ worker.pc = "loop"
    /\ processing_queue = <<>>
    /\ stats = PersistedStats
    /\ \E p \in PersistedCompleted :
          fs[p].exists /\ is_video_file(p) /\ p \notin Range(main.new_files)

\* C14 as stated: when load_state has returned for a state file that is missing,
\* that json.load cannot read, or whose loading fails at a later step, the counters
\* have their initial values and the completed set is empty.
C14_ZeroStateWhenLoadFails ==
    (/\ main.pc = "start_thread"
     /\ \/ state_file.kind # "json"
        \/ is_null(state_file.doc[1].completed_files)) =>
        /\ stats = InitStats
        /\ completed_files = {}

\* C14, the part that holds: load_state returns for every state file, and for a file
\* that is missing or that json.load cannot read the counters have their initial
\* values and the completed set is empty.
C14_ZeroStateWhenUnreadable ==
    (main.pc = "start_thread" /\ state_file.kind # "json") =>
        /\ stats = InitStats
        /\ completed_files = {}

\* the step in which save_state returns without having written a complete file
SaveFails ==
    /\ main.pc \in {"save_state_job", "save_state_write", "save_state_dump"}
    /\ main'.pc = "sleep"
    /\ history'.save_failed = "yes"

\* the step in which save_state has written the file
SaveWrites == main.pc = "save_state_dump" /\ state_file'.kind = "json"

\* a failed save_state changes no field of the monitor and the worker goes on;
\* the main thread goes on to the sleep and the test of the loop
FailureLeavesMemory ==
    SaveFails => /\ UNCHANGED <<shared, worker>>
                 /\ main'.pc = "sleep"

\* C15 as stated: a failed save_state changes neither the counters, the queue nor
\* the completed set and stops neither thread, and the next save_state that writes
\* the file writes the counters and the completed set as they are in memory then.
C15_NextSaveWritesCurrentState ==
    [][/\ FailureLeavesMemory
       /\ (SaveWrites /\ history.save_failed = "yes") =>
             /\ get_stats(state_file'.doc[1]) = stats'
             /\ Range(Items(state_file'.doc[1].completed_files)) = completed_files']_vars

\* C15, what holds: a failed save_state changes neither the counters, the queue nor
\* the completed set and stops neither thread; a save_state that writes the file
\* writes the completed set as it was when the call listed it, which is part of the
\* completed set in memory then, and counters that are neither below the ones in
\* memory when the writing began nor above the ones in memory when it ends.
C15_NextSaveWritesWhatItRead ==
    [][/\ FailureLeavesMemory
       /\ SaveWrites =>
             LET written == get_stats(state_file'.doc[1])
                 before == main.state[1].stats
             IN /\ Range(Items(state_file'.doc[1].completed_files))
                      = Range(main.state[1].completed_files)
                /\ Range(main.state[1].completed_files) \subseteq completed_files'
                /\ before.files_processed <= written.files_processed
                /\ written.files_processed <= stats'.files_processed
                /\ before.files_failed <= written.files_failed
                /\ written.files_failed <= stats'.files_failed
                /\ before.total_processing_time <= written.total_processing_time
                /\ written.total_processing_time <= stats'.total_processing_time
                /\ written.last_activity = stats'.last_activity]_vars

\* C15, the failing case: a save_state failed, both threads went on, and the next
\* save_state wrote the file while the worker completed a job: the file holds the
\* new counters and not the new completed path.
C15_RecoveredWithStaleList ==
    /\ main.pc = "sleep"
    /\ history.save_failed = "recovered"
    /\ state_file.kind = "json"
    /\ is_running
    /\ get_stats(state_file.doc[1]) = stats
    /\ Range(Items(state_file.doc[1].completed_files)) # completed_files

\* C16 as stated: save_state never leaves a half-written file: wherever the file
\* holds a complete snapshot before a step of save_state, it holds a complete
\* snapshot (that one or the new one) after it, which is what a reader of the
\* file, or a monitor started after a crash at that point, finds.
C16_NeverHalfWritten ==
    [][state_file.kind = "json" => state_file'.kind = "json"]_vars

\* C16, the failing case: save_state has opened the file that held a complete
\* snapshot and has not written the new one yet; the file cannot be read as JSON.
C16_TruncatedWhileSaving ==
    /\ main.pc = "save_state_dump"
    /\ state_file.kind = "corrupt"
    /\ history.save_failed = "no"
    /\ stats.files_processed > 0

\* C17 as stated: when a signal has arrived while the external processor was running
\* for a job, the process does not exit before that job is completed or failed.
C17_InFlightJobFinishes ==
    main.pc = "exited" => history.signal_in_flight = 0

\* C17, the failing case: the process has exited after a signal that arrived while
\* the external processor was running, and the job is still processing.
C17_ExitedWithJobProcessing ==
    /\ main.pc = "exited"
    /\ history.signal_in_flight > 0
    /\ worker.pc = "wait"
    /\ Held.status = "processing"
    /\ proc.running > 0

\* C18 as stated: when the process has exited and the last save_state wrote the
\* file, the file holds the counters and the completed set that were in memory at
\* the exit.
C18_FileReflectsFinalState ==
    (main.pc = "exited" /\ state_file.kind = "json" /\ history.save_failed # "yes") =>
        /\ get_stats(state_file.doc[1]) = stats
        /\ Range(Items(state_file.doc[1].completed_files)) = completed_files

\* C18, the failing case: the process has exited; the worker completed a job after
\* the last save_state, which wrote the file, and the job is in neither the
\* counters nor the completed list of the file.
C18_ExitedWithStaleFile ==
    /\ main.pc = "exited"
    /\ state_file.kind = "json"
    /\ history.save_failed # "yes"
    /\ worker.pc \in {"prune", "loop", "done"}
    /\ get_stats(state_file.doc[1]).files_processed < stats.files_processed
    /\ Range(Items(state_file.doc[1].completed_files)) # completed_files

\* the step in which an iteration of the loop of run begins: the condition held and
\* scan_for_new_files is called
ScanBegins == main.pc \in {"loop", "sleep"} /\ main'.pc = "scan"

\* C19: once a signal has cleared is_running it stays cleared, no iteration of the
\* loop begins (no scan is started), the main thread leaves the loop at its next
\* test of the condition, and no job is appended to the queue once the iteration
\* in progress is over.
C19_NoScanAfterSignal ==
    [][/\ ~is_running => ~is_running'
       /\ ScanBegins => is_running
       /\ (~is_running /\ main.pc \in {"loop", "sleep"} /\ main'.pc # main.pc) =>
             main'.pc = "stopped"
       /\ (~is_running /\ main.pc \in {"loop", "sleep", "stopped", "exited"}) =>
             Len(processing_queue') <= Len(processing_queue)]_vars

\* C19, its case: after a signal the main thread has left the loop while a file with
\* an accepted extension is there that is neither completed nor in the queue.
C19_StoppedWithFileUnscanned ==
    /\ main.pc = "stopped"
    /\ ~is_running
    /\ \E p \in Paths :
          /\ fs[p].exists /\ is_video_file(p)
          /\ p \notin completed_files
          /\ ~in_queue(p)

\* the step in which some job goes from pending to processing
BecomesProcessing(i) ==
    /\ i \in 1..Len(processing_queue) /\ i \in 1..Len(processing_queue')
    /\ processing_queue[i].status = "pending"
    /\ processing_queue'[i].status = "processing"

\* the step in which the worker takes a job from the queue: pending_jobs[0]
PickStep == worker.pc = "loop" /\ worker'.pc = "process_file"

\* C20 as stated: in no step taken with is_running cleared does a job go from
\* pending to processing, and in none is an external processor started.
C20_NothingStartsAfterSignal ==
    [][~is_running =>
          /\ \A i \in 1..Len(processing_queue) : ~BecomesProcessing(i)
          /\ proc'.running <= proc.running]_vars

\* C20 as amended: with is_running cleared the worker takes no job from the queue
\* and leaves its loop at the next test; the only job that still goes from pending
\* to processing is the one it had taken before, and the only external processor
\* that still starts is for a job that had passed its stability checks before.
C20_NoPickAfterSignal ==
    [][/\ PickStep => is_running
       /\ (~is_running /\ worker.pc = "loop" /\ worker'.pc # "loop") =>
             worker'.pc = "done"
       /\ ~is_running =>
             /\ \A i \in 1..Len(processing_queue) :
                   BecomesProcessing(i) =>
                       worker.pc = "process_file" /\ i = worker.job
             /\ proc'.running > proc.running =>
                   /\ worker.pc = "popen"
                   /\ Held.status = "processing"
                   /\ history.consec >= stability_check_count]_vars

\* C20, its case: after a signal the worker has left its loop, and a job that it
\* never took is still pending in the queue.
C20_WorkerDoneWithPendingJob ==
    /\ ~is_running
    /\ worker.pc = "done"
    /\ pending_jobs(processing_queue) # {}
    /\ stats.files_processed + stats.files_failed < MaxJobs

\* the step in which signal_handler runs (where it can be told from no step at all)
SignalStep ==
    \/ is_running' # is_running
    \/ /\ history'.signal_in_flight > history.signal_in_flight
       /\ worker' = worker

\* C21: once a signal has cleared is_running it is never set again, and handling a
\* signal when it is already cleared changes no field of the monitor, no file and
\* no thread's position.
C21_SignalIdempotent ==
    [][/\ ~is_running => ~is_running'
       /\ SignalStep => UNCHANGED <<fs, proc, state_file, processing_queue,
                                    completed_files, current_job, stats, main, worker>>
       /\ (SignalStep /\ ~is_running) => UNCHANGED is_running]_vars

\* C21, its case: a second signal has been handled while the worker was waiting for
\* the external processor of the job in flight, and the monitor is as the first
\* signal left it.
C21_SecondSignalWhileDraining ==
    /\ history.signal_in_flight = 2
    /\ ~is_running
    /\ worker.pc = "wait"
    /\ Held.status = "processing"
    /\ current_job = worker.job

\* r is the recursive overlay of the mapping u on the mapping d: a key of u
\* replaces what d holds there, unless both hold mappings, which are overlaid
\* in turn; a key that u does not hold keeps what d holds
RECURSIVE Overlays(_, _, _)
Overlays(d, u, r) ==
    /\ DOMAIN r = DOMAIN d \cup DOMAIN u
    /\ \A key \in DOMAIN r :
          IF key \notin DOMAIN u
          THEN r[key] = d[key]
          ELSE IF key \in DOMAIN d /\ d[key].kind = "dict" /\ u[key].kind = "dict"
               THEN r[key].kind = "dict" /\ Overlays(d[key].val, u[key].val, r[key].val)
               ELSE r[key] = u[key]

\* C22: the configuration load_config ends with is the recursive overlay of the user
\* document on the defaults of the monitor.
C22_ConfigIsOverlay ==
    (main.pc = "setup_logging" /\ main.state[1].file.kind = "json") =>
        Overlays(default_config(main.state[1].monitor),
                 main.state[1].file.doc[1],
                 main.state[1].config)

\* C22, its case: the user document holds a mapping below a mapping of the defaults
\* with one key of the two the defaults hold there; the configuration has the
\* user's value at that key and the default at the other.
C22_NestedKeyMerged ==
    /\ main.pc = "setup_logging"
    /\ main.state[1].file.kind = "json"
    /\ main.state[1].monitor = "health_check"
    /\ LET user == main.state[1].file.doc[1]
           config == main.state[1].config
       IN /\ DOMAIN user = {"maintenance"}
          /\ user["maintenance"].kind = "dict"
          /\ DOMAIN user["maintenance"].val = {"tasks"}
          /\ user["maintenance"].val["tasks"].kind = "dict"
          /\ DOMAIN user["maintenance"].val["tasks"].val = {"cleanup_logs"}
          /\ config["maintenance"].val["tasks"].val["cleanup_logs"] = Leaf("False")
          /\ config["maintenance"].val["tasks"].val["update_stats"] = Leaf("True")
          /\ config["maintenance"].val["enabled"] = Leaf("True")

\* C23: the external processor is started only when stability_check_count sampling
\* intervals have begun and ended since the size or mtime of the file last changed.
C23_StartsAfterQuietIntervals ==
    [][(worker.pc = "popen" /\ worker'.pc = "wait") =>
            history.quiet >= stability_check_count]_vars

\* C23, the failing case: the writer appended to the file between two calls of
\* is_file_stable, which compare no sample of one call with a sample of another;
\* every call returned True and the processor is about to start, one call short.
C23_ChangedBetweenChecks ==
    /\ worker.pc = "popen"
    /\ is_running
    /\ history.consec = stability_check_count
    /\ history.quiet = stability_check_count - 1
    /\ fs[HeldPath] = [exists |-> TRUE, size |-> MaxSize * min_file_size,
                                    mtime |-> MaxSize]

\* C24: is_file_stable returns True exactly when both samples were taken, their
\* sizes are equal, their mtimes are equal and the size is at least
\* min_file_size_mb * 1024 * 1024 bytes; when a sample raised OSError it returns
\* False.
C24_StableIff ==
    main.pc = "returned" =>
        LET stat1 == main.state[1].stat1
            stat2 == main.state[1].stat2
            returned == main.state[1].returned
        IN /\ returned \in BOOLEAN
           /\ returned = TRUE <=>
                 /\ stat1.ok /\ stat2.ok
                 /\ stat1.size = stat2.size
                 /\ stat1.mtime = stat2.mtime
                 /\ stat2.size >= min_file_size_mb * 1024 * 1024
           /\ (stat1 = OSError \/ stat2 = OSError) => returned = FALSE

\* C24, its cases: a call returned False for two equal samples one byte short of
\* the minimum, and a call returned False because the second os.stat raised.
C24_OneByteShort ==
    /\ main.pc = "returned"
    /\ main.state[1].stat1 = main.state[1].stat2
    /\ main.state[1].stat1.ok
    /\ main.state[1].stat1.size = min_file_size_mb * 1024 * 1024 - 1
    /\ main.state[1].returned = FALSE

\* process_file returns False at `if not self.is_running` (line 235)
AbandonStep == worker.pc \in {"stat1", "stat2"} /\ worker'.pc = "prune"

\* the worker is back in process_queue with the job it abandoned
Abandoned == worker.pc = "prune" /\ Held.status = "processing"

\* C25: when is_running is found cleared after a stability check, process_file
\* returns at once: the external processor is not started, the job is neither
\* failed nor completed then or later (process_queue drops it from the queue as
\* it is), and files_failed, files_processed and the completed set stay as they
\* were.
C25_AbandonedOnShutdown ==
    [][/\ (worker.pc \in {"stat1", "stat2"} /\ ~is_running) => worker'.pc # "popen"
       /\ AbandonStep =>
             /\ ~is_running
             /\ Abandoned'
             /\ current_job' = 0
             /\ UNCHANGED <<proc, stats, completed_files, processing_queue>>
       /\ Abandoned =>
             /\ stats'.files_failed = stats.files_failed
             /\ stats'.files_processed = stats.files_processed
             /\ UNCHANGED completed_files
             /\ proc'.running = proc.running
             /\ \/ Abandoned' /\ worker'.job = worker.job
                \/ /\ worker'.pc = "loop"
                   /\ \A i \in DOMAIN processing_queue' :
                         processing_queue'[i].status = "pending"]_vars

\* C25, its case: the signal came during the last check of the sequence; every
\* check returned True and the job was abandoned all the same.
C25_AbandonedAtLastCheck ==
    /\ Abandoned
    /\ ~is_running
    /\ history.consec = stability_check_count
    /\ proc.running = 0
    /\ stats = InitStats

\* C26: no thread has changed the job queue or the completed set while it did not
\* hold self.lock.
C26_MutationsUnderLock == history.unlocked = {}

\* C26, the failing case: the worker has added a path to the completed set in no
\* `with self.lock:` block, while the main thread is in a scan that reads the set.
C26_CompletedAddedWithoutLock ==
    /\ "completed_files" \in history.unlocked
    /\ worker.pc = "prune"
    /\ Held.status = "completed"
    /\ HeldPath \in completed_files
    /\ main.pc = "scan"
    /\ main.todo # {}

C28_NoInputDirectory ==
    /\ main.pc = "add_to_queue"
    /\ main.state # <<>>
    /\ ~main.state[1].input_dir
    /\ main.new_files = <<>>

\* C29: is_video_file returns True exactly when the suffix of the path equals one
\* of the configured extensions once both are put in lower case.
C29_MatchIgnoresCase ==
    main.pc = "returned" =>
        (main.state[1].returned <=>
            \E e \in main.state[1].video_extensions :
                Lower(e) = Lower(Suffix(main.state[1].file_path)))

\* C29, the failing case: the configuration lists ".MP4" only and is_video_file has
\* returned False for a.mp4.
C29_UpperCaseExtensionNeverMatches ==
    /\ main.pc = "returned"
    /\ main.state[1].file_path = "a.mp4"
    /\ main.state[1].video_extensions = {".MP4"}
    /\ main.state[1].returned = FALSE

\* C29, what holds: is_video_file returns True exactly when the suffix of the path
\* in lower case is one of the configured extensions as they are written.
C29_MatchIgnoresCaseOfSuffix ==
    main.pc = "returned" =>
        (main.state[1].returned <=>
            Lower(Suffix(main.state[1].file_path)) \in main.state[1].video_extensions)

\* a job fails: the external processor has exited with a non-zero code, or
\* subprocess.Popen has raised
FailStep == \E i \in 1..Len(processing_queue) :
                /\ processing_queue[i].status # "failed"
                /\ i <= Len(processing_queue')
                /\ processing_queue'[i].status = "failed"

\* C30: a job that fails leaves is_running and the main thread as they are and the
\* worker on its way back to the loop of process_queue, where it takes the next
\* pending job; the worker leaves its loop, and the main thread its own, only at a
\* loop test that finds is_running cleared, and only signal_handler clears it.
C30_OnlySignalStops ==
    [][/\ FailStep => /\ worker.pc \in {"popen", "wait"}
                      /\ worker'.pc = "prune"
                      /\ UNCHANGED <<is_running, main>>
       /\ (worker.pc = "prune" /\ worker'.pc # "prune") => worker'.pc = "loop"
       /\ (worker.pc # "done" /\ worker'.pc = "done") =>
             worker.pc = "loop" /\ ~is_running
       /\ (main.pc # "stopped" /\ main'.pc = "stopped") =>
             main.pc \in {"loop", "sleep"} /\ ~is_running
       /\ (main.pc # "exited" /\ main'.pc = "exited") => main.pc = "stopped"
       /\ (is_running /\ ~is_running') => UNCHANGED <<main, worker>>
       /\ ( /\ worker.pc = "loop" /\ is_running /\ main.pc # "exited"
            /\ pending_jobs(processing_queue) # {}
            /\ stats.files_processed + stats.files_failed < MaxJobs ) =>
             ENABLED (process_queue_pick /\ worker'.pc = "process_file")]_vars

\* C30, its case: one job has failed and the worker, still running, holds a later
\* job whose file it is checking.
C30_NextJobAfterFailure ==
    /\ stats.files_failed = 1
    /\ stats.files_processed = 0
    /\ is_running
    /\ main.pc # "exited"
    /\ worker.pc = "stat2"
    /\ Held.status = "processing"

\* C31: no step of the monitor, of its worker or of a signal handler takes a path
\* out of the completed set.
C31_CompletedSetGrows == [][completed_files \subseteq completed_files']_vars

\* C31, its case: the set loaded from the state file has had a path added by a job
\* that completed, and the job has been pruned from the queue.
C31_GrownByLoadAndJob ==
    /\ state_file.kind = "json"
    /\ completed_files = Paths
    /\ PersistedCompleted # {}
    /\ PersistedCompleted # Paths
    /\ stats.files_processed > PersistedStats.files_processed
    /\ worker.pc = "loop"
    /\ processing_queue = <<>>

\* the job at place i of the queue goes to the status st in this step
Becomes(i, st) ==
    /\ i <= Len(processing_queue')
    /\ processing_queue[i].status # st
    /\ processing_queue'[i].status = st
    /\ processing_queue'[i].file_path = processing_queue[i].file_path

\* the jobs that end in this step
Ending == {i \in 1..Len(processing_queue) :
              Becomes(i, "completed") \/ Becomes(i, "failed")}

\* C32: once load_state has set the counters the monitor starts from, a step in
\* which a job becomes completed adds 1 to files_processed and leaves files_failed,
\* a step in which a job becomes failed adds 1 to files_failed and leaves
\* files_processed, one job ends in a step at most, and the two counters change in
\* no other step.
C32_CountedOnce ==
    [][main.pc # "load_state" =>
         /\ \A i \in 1..Len(processing_queue) :
               /\ Becomes(i, "completed") =>
                     /\ stats'.files_processed = stats.files_processed + 1
                     /\ stats'.files_failed = stats.files_failed
               /\ Becomes(i, "failed") =>
                     /\ stats'.files_failed = stats.files_failed + 1
                     /\ stats'.files_processed = stats.files_processed
         /\ \A i, j \in Ending : i = j
         /\ ( \/ stats'.files_processed # stats.files_processed
              \/ stats'.files_failed # stats.files_failed ) => Ending # {}]_vars

\* C32, its case: one job has failed and one has completed since the monitor
\* started from zero, and each counter stands at 1.
C32_OneOfEach ==
    /\ state_file.kind # "json"
    /\ stats.files_processed = 1
    /\ stats.files_failed = 1
    /\ history.failed # {}
    /\ completed_files # {}
    /\ worker.pc = "prune"

\* a job of the queue changes its status in this step
StatusChanges ==
    \E i \in 1..Len(processing_queue) :
        /\ i <= Len(processing_queue')
        /\ processing_queue'[i].file_path = processing_queue[i].file_path
        /\ processing_queue'[i].status # processing_queue[i].status

\* C33: when a job changes its status, save_state has written the state file since
\* the last change of status of a job.
C33_SavedBetweenTransitions == [][StatusChanges => ~history.unsaved]_vars

\* C33, the failing case: a job went to processing and then to failed while the main
\* thread was in time.sleep(check_interval), and no save_state came in between.
C33_TwoTransitionsNoSave ==
    /\ history.unsaved
    /\ main.pc = "sleep"
    /\ worker.pc = "prune"
    /\ Held.status = "failed"
    /\ state_file.kind = "json"
    /\ state_file.doc[1].current_job = <<>>
    /\ Number(state_file.doc[1].stats.files_failed) < stats.files_failed

\* the changes of status a job may make
Transitions == {<<"pending", "processing">>, <<"processing", "completed">>,
                <<"processing", "failed">>}

\* C34: a job enters the queue with status pending; a job in the queue changes its
\* status only from pending to processing, from processing to completed or from
\* processing to failed, so that a completed or failed job keeps its status; and
\* the step that takes jobs out of the queue changes the status of none.
C34_StatusMachine ==
    [][/\ \A i \in 1..Len(processing_queue) :
             processing_queue[i].status \in
                 {"pending", "processing", "completed", "failed"}
       /\ Len(processing_queue') > Len(processing_queue) =>
             /\ processing_queue' =
                    Append(processing_queue,
                           processing_queue'[Len(processing_queue')])
             /\ processing_queue'[Len(processing_queue')].status = "pending"
       /\ Len(processing_queue') = Len(processing_queue) =>
             \A i \in 1..Len(processing_queue) :
                 /\ processing_queue'[i].file_path = processing_queue[i].file_path
                 /\ \/ processing_queue'[i].status = processing_queue[i].status
                    \/ <<processing_queue[i].status, processing_queue'[i].status>>
                          \in Transitions
       /\ Len(processing_queue') < Len(processing_queue) =>
             processing_queue' = Filter(processing_queue, {"pending"})]_vars

\* C34, its case: a job has gone all the way to completed, and a pending job
\* enqueued after it waits behind it.
C34_CompletedAheadOfPending ==
    /\ worker.pc = "prune"
    /\ Len(processing_queue) = 2
    /\ processing_queue[1].status = "completed"
    /\ processing_queue[2].status = "pending"
    /\ worker.job = 1

\* C35: a job enters the queue at its end; the job the worker takes is the pending
\* job nearest the front, which is the pending job enqueued first; and two pending
\* jobs that a prune keeps stay in the order they were in.
C35_FirstInFirstOut ==
    [][/\ Len(processing_queue') > Len(processing_queue) =>
             SubSeq(processing_queue', 1, Len(processing_queue)) = processing_queue
       /\ PickStep =>
             /\ processing_queue[worker'.job].status = "pending"
             /\ \A j \in 1..Len(processing_queue) :
                   processing_queue[j].status = "pending" => worker'.job <= j
       /\ (worker.pc = "prune" /\ worker'.pc = "loop") =>
             /\ \A i, j \in 1..Len(processing_queue) :
                   ( /\ i < j
                     /\ processing_queue[i].status = "pending"
                     /\ processing_queue[j].status = "pending" ) =>
                      \E a, b \in 1..Len(processing_queue') :
                          /\ a < b
                          /\ processing_queue'[a] = processing_queue[i]
                          /\ processing_queue'[b] = processing_queue[j]
             /\ \A a \in 1..Len(processing_queue') :
                   \E i \in 1..Len(processing_queue) :
                       processing_queue[i] = processing_queue'[a]]_vars

\* C35, its case: of two pending jobs, the second appended by add_to_queue behind
\* the first, the worker has taken the one at the front.
C35_TookFrontOfTwo ==
    /\ worker.pc = "process_file"
    /\ worker.job = 1
    /\ Len(processing_queue) = 2
    /\ processing_queue[1] = [file_path |-> "b.MKV", status |-> "pending"]
    /\ processing_queue[2] = [file_path |-> "a.mp4", status |-> "pending"]
    /\ main.i > Len(main.new_files)
    /\ Len(main.new_files) = 1

\* C36: a path in the completed set is the path of no job that is pending or
\* processing: once a job for it has completed, none is enqueued or processed.
C36_CompletedNotEnqueuedAgain ==
    \A i \in 1..Len(processing_queue) :
        processing_queue[i].file_path \in completed_files =>
            processing_queue[i].status = "completed"

\* C36, the failing case: the scan had passed a.mp4 through its test of the
\* completed set when the worker completed and pruned the job for it; the scan
\* then found no job in the queue and enqueued the path again, and the external
\* processor runs for it a second time.
C36_ProcessedAgain ==
    /\ worker.pc = "wait"
    /\ proc.running > 0
    /\ HeldPath = "a.mp4"
    /\ Held.status = "processing"
    /\ "a.mp4" \in completed_files
    /\ state_file.kind # "json"
    /\ stats.files_processed = 1
    /\ fs["a.mp4"].exists

\* some job for the path p is in the queue with one of the statuses
JobFor(p, statuses) ==
    \E i \in 1..Len(processing_queue) :
        /\ processing_queue[i].file_path = p
        /\ processing_queue[i].status \in statuses

\* C37: as long as no signal has come, a job that is pending for a path before any
\* job has ended is followed by a job for that path that is completed or failed.
C37_EveryJobEnds ==
    \A p \in Paths :
        ( /\ JobFor(p, {"pending"})
          /\ stats.files_processed + stats.files_failed = 0 )
          ~> (JobFor(p, {"completed", "failed"}) \/ ~is_running)

\* C37, the failing case: the file of the job the worker holds was removed after it
\* was enqueued; is_file_stable returns False and process_file asks again, for
\* ever, while the job for the other file waits behind it.
C37_StuckBehindRemovedFile ==
    /\ is_running
    /\ worker.pc = "stat1"
    /\ worker.job = 1
    /\ ~fs[HeldPath].exists
    /\ history.samples = "other"
    /\ history.consec = 0
    /\ Len(processing_queue) = 2
    /\ processing_queue[2].status = "pending"
    /\ fs[processing_queue[2].file_path] = Whole

\* C37, what holds: the job ends unless some file is removed or stays smaller than
\* the minimum size.
C37_EveryJobEndsWhileFilesStay ==
    \A p \in Paths :
        ( /\ JobFor(p, {"pending"})
          /\ stats.files_processed + stats.files_failed = 0 )
          ~> \/ JobFor(p, {"completed", "failed"})
             \/ ~is_running
             \/ \E q \in Paths : ~fs[q].exists \/ fs[q].size < min_file_size

\* C38: in every step, each job that is pending in the queue is still in the queue
\* afterwards, and still pending unless the step is the worker's own start of the
\* job it picked; no prune and no append of the other thread removes it.
C38_NoJobLost ==
    [][\A i \in 1..Len(processing_queue) :
          processing_queue[i].status = "pending" =>
              \E j \in 1..Len(processing_queue') :
                  /\ processing_queue'[j].file_path = processing_queue[i].file_path
                  /\ \/ processing_queue'[j].status = "pending"
                     \/ /\ worker.pc = "process_file"
                        /\ worker.job = i
                        /\ j = i
                        /\ processing_queue'[j].status = "processing"]_vars

\* C38 happens: the main thread has just appended the one file of its scan, the
\* worker has ended a job and pruned, and the appended job is in the queue, pending.
C38_AppendedJobOutlivesPrune ==
    /\ main.pc = "add_to_queue"
    /\ main.i = 2
    /\ Len(main.new_files) = 1
    /\ worker.pc = "loop"
    /\ stats.files_processed + stats.files_failed = 1
    /\ Len(processing_queue) = 1
    /\ processing_queue[1].file_path = main.new_files[1]
    /\ processing_queue[1].status = "pending"

\* C39: a snapshot that save_state has built or written with a job under
\* 'current_job' has a 'queue_length' of at least 1.
C39_InFlightJobCounted ==
    /\ main.pc \in {"save_state_write", "save_state_dump"} =>
           (main.state[1].current_job # <<>> => main.state[1].queue_length >= 1)
    /\ state_file.kind = "json" =>
           (state_file.doc[1].current_job # <<>> =>
                Number(state_file.doc[1].queue_length) >= 1)

\* C39 happens: the state file holds a snapshot with the job in flight, written
\* while the worker went on: the job has ended and is pruned since.
C39_WrittenWithJobInFlight ==
    /\ state_file.kind = "json"
    /\ state_file.doc[1].current_job # <<>>
    /\ state_file.doc[1].current_job[1].status = "processing"
    /\ Number(state_file.doc[1].queue_length) = 1
    /\ processing_queue = <<>>
    /\ current_job = 0

\* C40: once self.is_running is cleared, run leaves its loop: the main thread
\* reaches the line after the loop and returns.
C40_StopsAfterSignal == ~is_running ~> main.pc \in {"stopped", "exited"}

\* C40 happens: the signal came while the worker waited for the external processor,
\* which still runs, and run has returned.
C40_StoppedWhileProcessorRuns ==
    /\ ~is_running
    /\ main.pc = "exited"
    /\ worker.pc = "wait"
    /\ proc.running > 0
    /\ history.signal_in_flight > 0

====
